---- MODULE Spec2Model ----
(***************************************************************************)
(* Model of backtrader_ib_insync/ibdata.py: the IBData feed state machine  *)
(* (start, stop, _load, _st_start), the bar normalisers (_load_rtbar,      *)
(* _load_rtvolume), and the Broker Gateway channels they read.             *)
(*                                                                         *)
(* _load is a `while True` loop; one iteration of the loop is one action,  *)
(* so that a call that does not return and the gateway filling a channel   *)
(* between two iterations are both visible.  start() and stop() are one    *)
(* action each.                                                            *)
(***************************************************************************)
EXTENDS Integers, Sequences, FiniteSets, TLC

\* ---------------------------------------------------------------- bounds
MaxTs == 2          \* timestamps of raw bars, ticks and seed records: 1..MaxTs
MaxBars == 2        \* records the seed feed and the gateway supply over the run
MaxSpin == 1        \* iterations of one _load call that found qlive empty
MaxNotifs == 4      \* notifications logged in one session
MaxTokens == 8      \* tokens of an identifier given to parsecontract

Ts == 1..MaxTs

\* ------------------------------------------------------------- constants
None == "None"

\* _ST_FROM, _ST_START, _ST_LIVE, _ST_HISTORBACK, _ST_OVER = range(5)
ST_NONE == -1       \* self._state = None, before start()
ST_FROM == 0
ST_START == 1
ST_LIVE == 2
ST_HISTORBACK == 3
ST_OVER == 4

\* TimeFrame.Seconds of backtrader, and RTBAR_MINSIZE = (TimeFrame.Seconds, 5)
TimeFrameSeconds == 3
TimeFrameMinutes == 4
RTBAR_MINSIZE == <<TimeFrameSeconds, 5>>

CONNECTED == "CONNECTED"
DISCONNECTED == "DISCONNECTED"
DELAYED == "DELAYED"
LIVE == "LIVE"

\* (timeframe, compression) pairs a feed can be configured with
TfComps == {<<TimeFrameSeconds, 1>>, <<TimeFrameSeconds, 5>>,
            <<TimeFrameMinutes, 1>>}

\* ----------------------------------------------------------------- state
VARIABLES
    p,              \* self.p: the parameters, fixed at construction
    _state,         \* self._state
    contract,       \* self.contract
    tradecontract,  \* self.tradecontract
    _usertvol,      \* self._usertvol
    qlive,          \* self.qlive: the live channel (ticks or 5-second bars)
    qhist,          \* self.qhist: the historical channel
    lines,          \* the Bar Sink: the bars delivered so far
    notifs,         \* notifications put since the last start()
    pc,             \* "idle", or "load" while a _load call is in its loop
    ret,            \* what the last _load call returned (None: no call yet)
    spins,          \* iterations of the current _load call that found qlive empty
    gwLive,         \* gateway: a live subscription of this feed is active
    gwHist,         \* gateway: a historical request of this feed is pending
    liveKind,       \* kind of the last live subscription issued in the session
    histReqs,       \* historical requests issued in the session
    histBegin,      \* begin of the last historical request: <<>> is None, <<t>> a date
    stopped,        \* stop() was called and start() not since
    supplied,       \* records the seed feed and the gateway have supplied so far
    rejects,        \* items the running _load call has rejected as late
    precontract,    \* self.precontract: what parsecontract made of p.dataname
    parts           \* the tokens p.dataname was written with

vars == <<p, _state, contract, tradecontract, _usertvol, qlive, qhist, lines,
          notifs, pc, ret, spins, gwLive, gwHist, liveKind, histReqs,
          histBegin, stopped, supplied, rejects, precontract, parts>>

\* the options of IBData a feed is constructed with
Params ==
    [ historical     : BOOLEAN,
      backfill_start : BOOLEAN,
      backfill_from  : BOOLEAN,           \* a seed feed is configured
      latethrough    : BOOLEAN,
      rtbar          : BOOLEAN,
      tfcomp         : TfComps,
      tradename      : BOOLEAN ]          \* a separate trade descriptor

\* ------------------------------------------------------------- the sink
Last(s) == s[Len(s)]

\* a bar of the Bar Sink: its datetime, the source it came from, and whether
\* it was delivered in the current session (since the last start())
Bar(dt, src) == [datetime |-> dt, src |-> src, cur |-> TRUE]

\* ------------------------------------------------------ pure conditions
\* tuple comparison of Python: (a1, a2) < (b1, b2)
TupleLess(a, b) == a[1] < b[1] \/ (a[1] = b[1] /\ a[2] < b[2])

\* start(): the initial state of _load
InitialState == IF p.backfill_from THEN ST_FROM ELSE ST_START

\* ibstore.get_contract_details(precontract, maxcount=1): the details when
\* exactly one contract matches, None otherwise
GetContractDetails(matches) == IF matches = 1 THEN "cds" ELSE None

\* mutant: the timeframe is not looked at
UseRtVol_RtbarOnly == ~p.rtbar

\* start(): self._usertvol
UseRtVol == (~p.rtbar) \/ TupleLess(p.tfcomp, RTBAR_MINSIZE)

\* mutant: the guard forgets the unresolved contract
LoadGuard_StateOnly == _state = ST_OVER

\* _load: `if self.contract is None or self._state == self._ST_OVER`
LoadGuard == contract = None \/ _state = ST_OVER

\* mutant: an item with the last timestamp of the sink is rejected too
Rejected_OrEqual(dt) == Len(lines) > 0 /\ dt <= Last(lines).datetime /\ ~p.latethrough

\* mutant: nothing is ever rejected
Rejected_Never(dt) == FALSE

\* mutant: a seed bar at the end of the sink is not compared with
Rejected_SeedExempt(dt) ==
    /\ Len(lines) > 0 /\ Last(lines).src # "seed"
    /\ dt < Last(lines).datetime /\ ~p.latethrough

\* mutant: the comparison is the wrong way round
Rejected_Inverted(dt) == Len(lines) > 0 /\ dt > Last(lines).datetime /\ ~p.latethrough

\* mutant: latethrough is not consulted
Rejected_NoLatethrough(dt) == Len(lines) > 0 /\ dt < Last(lines).datetime

\* _load_rtbar / _load_rtvolume:
\* `if dt < self.lines.datetime[-1] and not self.p.latethrough: return False`
\* (with an empty sink datetime[-1] is NaN and the comparison is false)
Rejected(dt) == Len(lines) > 0 /\ dt < Last(lines).datetime /\ ~p.latethrough

\* mutant: an exhausted historical channel always leads to LIVE
GoLive_Always == TRUE

\* _load, HISTORBACK with qhist empty: `elif not self.p.historical`
GoLive == ~p.historical

\* mutant: the backfill request begins at the last bar only from the second
\* bar of the sink on
StStart_BeginOffByOne(pending) ==
    IF p.historical THEN
        [notif |-> <<DELAYED>>, request |-> TRUE, begin |-> <<>>,
         state |-> ST_HISTORBACK]
    ELSE IF p.backfill_start THEN
        [notif |-> <<DELAYED>>, request |-> TRUE,
         begin |-> IF Len(lines) + pending > 2 THEN <<Last(lines).datetime>> ELSE <<>>,
         state |-> ST_HISTORBACK]
    ELSE
        [notif |-> <<>>, request |-> FALSE, begin |-> <<>>, state |-> ST_LIVE]

\* mutant: the backfill request leaves the state at _ST_START
StStart_StaysStart(pending) ==
    IF p.historical THEN
        [notif |-> <<DELAYED>>, request |-> TRUE, begin |-> <<>>,
         state |-> ST_HISTORBACK]
    ELSE IF p.backfill_start THEN
        [notif |-> <<DELAYED>>, request |-> TRUE,
         begin |-> IF Len(lines) + pending > 1 THEN <<Last(lines).datetime>> ELSE <<>>,
         state |-> ST_START]
    ELSE
        [notif |-> <<>>, request |-> FALSE, begin |-> <<>>, state |-> ST_LIVE]

\* mutant: going live without backfill is notified too
StStart_NotifiesLive(pending) ==
    IF p.historical THEN
        [notif |-> <<DELAYED>>, request |-> TRUE, begin |-> <<>>,
         state |-> ST_HISTORBACK]
    ELSE IF p.backfill_start THEN
        [notif |-> <<DELAYED>>, request |-> TRUE,
         begin |-> IF Len(lines) + pending > 1 THEN <<Last(lines).datetime>> ELSE <<>>,
         state |-> ST_HISTORBACK]
    ELSE
        [notif |-> <<LIVE>>, request |-> FALSE, begin |-> <<>>, state |-> ST_LIVE]

\* mutant: a live feed backfills at start whatever backfill_start says
StStart_AlwaysBackfill(pending) ==
    [notif |-> <<DELAYED>>, request |-> TRUE,
     begin |-> IF (~p.historical) /\ Len(lines) + pending > 1
               THEN <<Last(lines).datetime>> ELSE <<>>,
     state |-> ST_HISTORBACK]

\* _st_start(): what it decides (fromdate and todate keep their defaults, so
\* the historical-only request is open-ended).  pending is 1 when called from
\* _load (the sink has been forwarded to the pending slot), 0 from start().
StStart(pending) ==
    IF p.historical THEN
        [notif |-> <<DELAYED>>, request |-> TRUE, begin |-> <<>>,
         state |-> ST_HISTORBACK]
    ELSE IF p.backfill_start THEN
        [notif |-> <<DELAYED>>, request |-> TRUE,
         begin |-> IF Len(lines) + pending > 1 THEN <<Last(lines).datetime>> ELSE <<>>,
         state |-> ST_HISTORBACK]
    ELSE
        [notif |-> <<>>, request |-> FALSE, begin |-> <<>>, state |-> ST_LIVE]

\* ------------------------------------------------------- parsecontract()
\* Strings the parser looks into are sequences of one-character strings.
STK == <<"S", "T", "K">>
FUT == <<"F", "U", "T">>
OPT == <<"O", "P", "T">>
FOP == <<"F", "O", "P">>
CASH == <<"C", "A", "S", "H">>
SMART == <<"S", "M", "A", "R", "T">>

Digits == {"0", "1", "2", "3", "4", "5", "6", "7", "8", "9"}
DigitVal == [c \in Digits |->
                CASE c = "0" -> 0 [] c = "1" -> 1 [] c = "2" -> 2 [] c = "3" -> 3
                  [] c = "4" -> 4 [] c = "5" -> 5 [] c = "6" -> 6 [] c = "7" -> 7
                  [] c = "8" -> 8 [] c = "9" -> 9]

\* str.split(sep)
RECURSIVE Split(_, _)
Split(s, sep) ==
    IF \E i \in 1..Len(s) : s[i] = sep
    THEN LET i == CHOOSE j \in 1..Len(s) :
                      s[j] = sep /\ \A k \in 1..(j - 1) : s[k] # sep
         IN <<SubSeq(s, 1, i - 1)>> \o Split(SubSeq(s, i + 1, Len(s)), sep)
    ELSE <<s>>

\* sep.join(ts), how an identifier is written from its tokens
RECURSIVE Join(_, _)
Join(ts, sep) ==
    IF Len(ts) = 1 THEN ts[1] ELSE ts[1] \o <<sep>> \o Join(Tail(ts), sep)

\* str.isdigit()
IsDigit(s) == s # <<>> /\ \A i \in 1..Len(s) : s[i] \in Digits

\* the value of a string of digits
RECURSIVE DecimalValue(_)
DecimalValue(s) ==
    IF s = <<>> THEN 0
    ELSE 10 * DecimalValue(SubSeq(s, 1, Len(s) - 1)) + DigitVal[s[Len(s)]]

\* float(s): of the strings the identifiers here are written with, the
\* strings of digits convert and the others raise ValueError
FloatOk(s) == IsDigit(s)
Float(s) == DecimalValue(s)

\* what a raised exception leaves in place of a descriptor
Raises(e) == [raised |-> e]

\* self.ibstore.make_contract(symbol=..., ...): the descriptor is its arguments
MakeContract(symbol, sectype, exch, curr, expiry, strike, right, mult) ==
    [raised |-> "", symbol |-> symbol, sectype |-> sectype, exch |-> exch,
     curr |-> curr, expiry |-> expiry, strike |-> strike, right |-> right,
     mult |-> mult]

\* `curr = next(tokens)` in the try block: the fourth token when there is one
CurrencyOf(sectype, n, tokens, curr0) == IF n >= 4 THEN tokens[4] ELSE curr0

\* mutant: any expiry written as digits makes a future
InferType_AlwaysFut(sectype) == FUT

\* `if len(sectype) == 6: sectype = "FUT" else: sectype = "OPT"`
InferType(sectype) == IF Len(sectype) = 6 THEN FUT ELSE OPT

\* mutant: the token read after right is dropped, mult keeps the one read
\* before it
FopPromotion_KeepsMult(n, k, tokens) ==
    [sectype |-> FOP, strike |-> Float(tokens[k]), right |-> tokens[k + 1],
     mult |-> tokens[k]]

\* the FUT branch once `right = next(tokens)` has succeeded (tokens[k] was
\* read as mult, tokens[k + 1] as right):
\* `sectype = "FOP"; strike, mult = float(mult), ""; mult = next(tokens)`
FopPromotion(n, k, tokens) ==
    [sectype |-> FOP, strike |-> Float(tokens[k]), right |-> tokens[k + 1],
     mult |-> IF n >= k + 2 THEN tokens[k + 2] ELSE <<>>]

\* parsecontract(dataname), for a dataname that is not None
ParseContract(dataname) ==
    LET tokens   == Split(dataname, "-")
        n        == Len(tokens)
        symbol0  == tokens[1]
        sectype0 == IF n >= 2 THEN tokens[2] ELSE p.sectype
        digit    == IsDigit(sectype0)
        expiry0  == IF digit THEN sectype0 ELSE <<>>
        sectype  == IF digit THEN InferType(sectype0) ELSE sectype0
        cash     == Split(symbol0, ".")
        symbol   == IF sectype = CASH THEN cash[1] ELSE symbol0
        curr0    == IF sectype = CASH THEN cash[2] ELSE p.currency
        exch     == IF n >= 3 THEN tokens[3] ELSE p.exchange
        curr     == CurrencyOf(sectype, n, tokens, curr0)
        \* `if not expiry: expiry = next(tokens)`
        expiry   == IF expiry0 = <<>> /\ n >= 5 THEN tokens[5] ELSE expiry0
        k        == IF expiry0 = <<>> THEN 6 ELSE 5   \* the token after the expiry
        fop      == FopPromotion(n, k, tokens)
    IN
    IF sectype = CASH /\ Len(cash) # 2 THEN Raises("ValueError")
    ELSE IF n >= 4 /\ sectype = FUT THEN
        IF n < k THEN
            MakeContract(symbol, FUT, exch, curr, expiry, 0, <<>>, <<>>)
        ELSE IF n < k + 1 THEN
            MakeContract(symbol, FUT, exch, curr, expiry, 0, <<>>, tokens[k])
        ELSE IF ~FloatOk(tokens[k]) THEN Raises("ValueError")
        ELSE MakeContract(symbol, fop.sectype, exch, curr, expiry, fop.strike,
                          fop.right, fop.mult)
    ELSE IF n >= 4 /\ sectype = OPT THEN
        IF n < k THEN
            MakeContract(symbol, OPT, exch, curr, expiry, 0, <<>>, <<>>)
        ELSE IF ~FloatOk(tokens[k]) THEN Raises("ValueError")
        ELSE MakeContract(symbol, OPT, exch, curr, expiry, Float(tokens[k]),
                          IF n >= k + 1 THEN tokens[k + 1] ELSE <<>>,
                          IF n >= k + 2 THEN tokens[k + 2] ELSE <<>>)
    ELSE MakeContract(symbol, sectype, exch, curr, expiry0, 0, <<>>, <<>>)

\* ---------------------------------------------------- identifiers tried
FGBL == <<"F", "G", "B", "L">>
EUR == <<"E", "U", "R">>
EUR_USD == <<"E", "U", "R", ".", "U", "S", "D">>
DTB == <<"D", "T", "B">>
YYYYMM == <<"2", "0", "0", "6", "0", "9">>
YYYYMMDD == <<"2", "0", "0", "6", "0", "9", "1", "5">>
N100 == <<"1", "0", "0">>
RightC == <<"C">>

Symbols == {FGBL, EUR_USD, EUR, <<>>}
TypeTokens == {STK, FUT, OPT, FOP, CASH, YYYYMM, YYYYMMDD}
TailTokens == {YYYYMM, N100, RightC}

\* symbol[-type[-exchange[-currency[-more tokens]]]]
DataParts ==
    LET h1 == {<<s>> : s \in Symbols}
        h2 == {h \o <<t>> : h \in h1, t \in TypeTokens}
        h3 == {h \o <<DTB>> : h \in h2}
        h4 == {h \o <<EUR>> : h \in h3}
        tl == UNION {[1..m -> TailTokens] : m \in 0..(MaxTokens - 4)}
    IN h1 \cup h2 \cup h3 \cup {h \o t : h \in h4, t \in tl}

\* self.p of a feed with options c, identifier dataname and default type sectype
IBDataParams(c, dataname, sectype) ==
    [ historical     |-> c.historical,
      backfill_start |-> c.backfill_start,
      backfill_from  |-> c.backfill_from,
      latethrough    |-> c.latethrough,
      rtbar          |-> c.rtbar,
      tfcomp         |-> c.tfcomp,
      tradename      |-> c.tradename,
      dataname       |-> dataname,
      sectype        |-> sectype,
      exchange       |-> SMART,
      currency       |-> <<>> ]

\* ------------------------------------------------------------------ Init
\* the feed as __init__ leaves it, constructed with parameters from P
InitWith(P) ==
    /\ p \in P
    /\ _state = ST_NONE
    /\ contract = None
    /\ tradecontract = None
    /\ _usertvol = FALSE
    /\ qlive = <<>>
    /\ qhist = <<>>
    /\ lines = <<>>
    /\ notifs = <<>>
    /\ pc = "idle"
    /\ ret = None
    /\ spins = 0
    /\ gwLive = FALSE
    /\ gwHist = FALSE
    /\ liveKind = None
    /\ histReqs = 0
    /\ histBegin = <<>>
    /\ stopped = FALSE
    /\ supplied = 0
    /\ rejects = 0

\* feeds of every configuration of a stock "FGBL", at the smallest timeframe
\* that 5-second bars support (rtbar alone then decides between ticks and
\* 5-second bars)
Init ==
    /\ InitWith({IBDataParams(c, FGBL, STK) :
                    c \in {c \in Params : c.tfcomp = RTBAR_MINSIZE}})
    /\ parts = <<FGBL>>
    /\ precontract = ParseContract(p.dataname)

\* feeds of every timeframe, with and without 5-second bars asked for
InitKind ==
    /\ InitWith({IBDataParams(c, FGBL, STK) :
                    c \in {c \in Params : ~c.latethrough /\ ~c.tradename}})
    /\ parts = <<FGBL>>
    /\ precontract = ParseContract(p.dataname)

\* an identifier written from tokens, about to be parsed by __init__ of a
\* feed with default options
DefaultOptions ==
    [historical |-> FALSE, backfill_start |-> TRUE, backfill_from |-> FALSE,
     latethrough |-> FALSE, rtbar |-> FALSE, tfcomp |-> RTBAR_MINSIZE,
     tradename |-> FALSE]

NotParsed == Raises("NotParsed")

InitParse ==
    /\ parts \in DataParts
    /\ InitWith({IBDataParams(DefaultOptions, Join(parts, "-"), st) :
                    st \in {STK, CASH}})
    /\ precontract = NotParsed

\* --------------------------------------------------------------- start()
\* matches, tmatches: how many contracts the gateway finds for the primary
\* and for the trade descriptor (the trade descriptor is looked up only when
\* there is one and the primary resolved; tmatches is 1 otherwise).
\* ibstore.start() opens a new gateway session: a fresh live queue, nothing
\* subscribed, nothing requested.  qhist and the sink are not touched.
Start(matches, tmatches) ==
    LET cds   == GetContractDetails(matches)
        tcds  == GetContractDetails(tmatches)
        ok    == cds # None /\ (p.tradename => tcds # None)
        run   == ok /\ InitialState = ST_START
        st    == StStart(0)
    IN
    /\ pc = "idle"
    /\ (p.tradename /\ matches = 1) \/ tmatches = 1
    /\ lines' = [i \in 1..Len(lines) |-> [lines[i] EXCEPT !.cur = FALSE]]
    /\ stopped' = FALSE
    /\ qlive' = <<>>
    /\ gwLive' = FALSE
    /\ liveKind' = None
    /\ _usertvol' = UseRtVol
    /\ contract' = IF cds # None THEN "contract" ELSE None
    /\ tradecontract' = IF cds = None THEN None
                        ELSE IF ~p.tradename THEN "contract"
                        ELSE IF tcds # None THEN "tradecontract" ELSE None
    /\ notifs' = <<CONNECTED>> \o (IF ok THEN <<>> ELSE <<DISCONNECTED>>)
                               \o (IF run THEN st.notif ELSE <<>>)
    /\ _state' = IF run THEN st.state ELSE InitialState
    /\ IF run /\ st.request
         THEN /\ qhist' = <<>>
              /\ gwHist' = TRUE
              /\ histReqs' = 1
              /\ histBegin' = st.begin
         ELSE /\ gwHist' = FALSE
              /\ histReqs' = 0
              /\ histBegin' = <<>>
              /\ UNCHANGED qhist
    /\ ret' = None
    /\ spins' = 0
    /\ UNCHANGED <<p, pc, supplied, rejects, precontract, parts>>

\* ---------------------------------------------------------------- stop()
\* ibstore.stop() releases the subscriptions and requests of the feed at the
\* gateway; the feed's own fields are left as they are
Stop ==
    /\ pc = "idle"
    /\ _state # ST_NONE
    /\ ~stopped
    /\ stopped' = TRUE
    /\ gwLive' = FALSE
    /\ gwHist' = FALSE
    /\ UNCHANGED <<p, _state, contract, tradecontract, _usertvol, qlive, qhist,
                   lines, notifs, pc, ret, spins, liveKind, histReqs,
                   histBegin, supplied>>
    /\ UNCHANGED <<rejects, precontract, parts>>

\* --------------------------------------------------------------- _load()
\* entry of a call: the early return, or into the loop
LoadEnter ==
    /\ pc = "idle"
    /\ IF LoadGuard
         THEN /\ ret' = "False"
              /\ UNCHANGED pc
         ELSE /\ ret' = None
              /\ pc' = "load"
    /\ spins' = 0
    /\ UNCHANGED <<p, _state, contract, tradecontract, _usertvol, qlive, qhist,
                   lines, notifs, gwLive, gwHist, liveKind, histReqs,
                   histBegin, stopped, supplied>>
    /\ UNCHANGED <<rejects, precontract, parts>>

\* mutant: in _ST_LIVE a bar left in qhist is normalised before qlive is
\* looked at
LoadLive_DrainsHist ==
    /\ pc = "load"
    /\ _state = ST_LIVE
    /\ liveKind' = IF _usertvol THEN "tick" ELSE "rtbar"
    /\ gwLive' = TRUE
    /\ IF qhist # <<>>
         THEN /\ qhist' = Tail(qhist)
              /\ IF Rejected(Head(qhist))
                   THEN /\ rejects' = rejects + 1
                        /\ UNCHANGED <<lines, pc, ret, spins>>
                   ELSE /\ lines' = Append(lines, Bar(Head(qhist), "hist"))
                        /\ pc' = "idle"
                        /\ ret' = "True"
                        /\ spins' = 0
                        /\ rejects' = 0
              /\ UNCHANGED qlive
         ELSE /\ qlive # <<>>
              /\ qlive' = Tail(qlive)
              /\ lines' = Append(lines, Bar(Head(qlive), "live"))
              /\ pc' = "idle"
              /\ ret' = "True"
              /\ spins' = 0
              /\ rejects' = 0
              /\ UNCHANGED qhist
    /\ UNCHANGED <<p, _state, contract, tradecontract, _usertvol,
                   notifs, gwHist, histReqs, histBegin, stopped, supplied>>
    /\ UNCHANGED <<precontract, parts>>

\* one iteration in _ST_LIVE: the subscription is (re)issued, then the head of
\* qlive goes through _load_rtvolume (ticks) or _load_rtbar (5-second bars),
\* which test its datetime in the same way
LoadLive ==
    /\ pc = "load"
    /\ _state = ST_LIVE
    /\ liveKind' = IF _usertvol THEN "tick" ELSE "rtbar"
    /\ gwLive' = TRUE
    /\ IF qlive # <<>>
         THEN /\ qlive' = Tail(qlive)
              /\ IF Rejected(Head(qlive))
                   THEN /\ rejects' = rejects + 1
                        /\ UNCHANGED <<lines, pc, ret, spins>>
                   ELSE /\ lines' = Append(lines, Bar(Head(qlive), "live"))
                        /\ pc' = "idle"
                        /\ ret' = "True"
                        /\ spins' = 0
                        /\ rejects' = 0
         ELSE /\ spins < MaxSpin
              /\ spins' = spins + 1
              /\ UNCHANGED <<qlive, lines, pc, ret, rejects>>
    /\ UNCHANGED <<p, _state, contract, tradecontract, _usertvol, qhist,
                   notifs, gwHist, histReqs, histBegin, stopped, supplied>>
    /\ UNCHANGED <<precontract, parts>>

\* one iteration in _ST_HISTORBACK
LoadHistorback ==
    /\ pc = "load"
    /\ _state = ST_HISTORBACK
    /\ IF qhist # <<>>
         THEN /\ qhist' = Tail(qhist)
              /\ IF Rejected(Head(qhist))
                   THEN /\ rejects' = rejects + 1
                        /\ UNCHANGED <<lines, pc, ret>>
                   ELSE /\ lines' = Append(lines, Bar(Head(qhist), "hist"))
                        /\ pc' = "idle"
                        /\ ret' = "True"
                        /\ rejects' = 0
              /\ UNCHANGED <<_state, notifs>>
         ELSE /\ Len(notifs) < MaxNotifs
              /\ IF GoLive
                   THEN /\ notifs' = Append(notifs, LIVE)
                        /\ _state' = ST_LIVE
                        /\ UNCHANGED <<pc, ret, rejects>>
                   ELSE /\ notifs' = Append(notifs, DISCONNECTED)
                        /\ pc' = "idle"
                        /\ ret' = "False"
                        /\ rejects' = 0
                        /\ UNCHANGED _state
              /\ UNCHANGED <<qhist, lines>>
    /\ UNCHANGED <<p, contract, tradecontract, _usertvol, qlive, spins, gwLive,
                   gwHist, liveKind, histReqs, histBegin, stopped, supplied>>
    /\ UNCHANGED <<precontract, parts>>

\* one iteration in _ST_FROM.  more: self.p.backfill_from.next() returned True
\* and the seed feed holds a record with datetime t; otherwise it is exhausted.
LoadFrom(more, t) ==
    /\ pc = "load"
    /\ _state = ST_FROM
    /\ IF ~more
         THEN /\ _state' = ST_START
              /\ UNCHANGED <<supplied, lines, pc, ret>>
         ELSE /\ supplied < MaxBars
              /\ supplied' = supplied + 1
              /\ lines' = Append(lines, Bar(t, "seed"))
              /\ pc' = "idle"
              /\ ret' = "True"
              /\ UNCHANGED _state
    /\ UNCHANGED <<p, contract, tradecontract, _usertvol, qlive, qhist, notifs,
                   spins, gwLive, gwHist, liveKind, histReqs, histBegin,
                   stopped>>
    /\ UNCHANGED <<rejects, precontract, parts>>

\* one iteration in _ST_START: _st_start() always returns True
LoadStart ==
    LET st == StStart(1) IN
    /\ pc = "load"
    /\ _state = ST_START
    /\ _state' = st.state
    /\ notifs' = notifs \o st.notif
    /\ IF st.request
         THEN /\ qhist' = <<>>
              /\ gwHist' = TRUE
              /\ histReqs' = histReqs + 1
              /\ histBegin' = st.begin
         ELSE UNCHANGED <<qhist, gwHist, histReqs, histBegin>>
    /\ UNCHANGED <<p, contract, tradecontract, _usertvol, qlive, lines, pc,
                   ret, spins, gwLive, liveKind, stopped, supplied>>
    /\ UNCHANGED <<rejects, precontract, parts>>

\* ------------------------------------------------------------ the gateway
\* the gateway's background work puts a historical bar into the channel of
\* the pending request
GwHistBar(t) ==
    /\ gwHist
    /\ supplied < MaxBars
    /\ supplied' = supplied + 1
    /\ qhist' = Append(qhist, t)
    /\ UNCHANGED <<p, _state, contract, tradecontract, _usertvol, qlive, lines,
                   notifs, pc, ret, spins, gwLive, gwHist, liveKind, histReqs,
                   histBegin, stopped>>
    /\ UNCHANGED <<rejects, precontract, parts>>

\* ... or a tick / 5-second bar into the channel of the live subscription
GwLiveItem(t) ==
    /\ gwLive
    /\ supplied < MaxBars
    /\ supplied' = supplied + 1
    /\ qlive' = Append(qlive, t)
    /\ UNCHANGED <<p, _state, contract, tradecontract, _usertvol, qhist, lines,
                   notifs, pc, ret, spins, gwLive, gwHist, liveKind, histReqs,
                   histBegin, stopped>>
    /\ UNCHANGED <<rejects, precontract, parts>>

\* ------------------------------------------------------------------ Next
Next ==
    \/ \E m \in 0..2, tm \in 0..2 : Start(m, tm)
    \/ Stop
    \/ LoadEnter
    \/ LoadLive
    \/ LoadHistorback
    \/ \E more \in BOOLEAN, t \in Ts : LoadFrom(more, t)
    \/ LoadStart
    \/ \E t \in Ts : GwHistBar(t)
    \/ \E t \in Ts : GwLiveItem(t)

Spec == Init /\ [][Next]_vars

SpecKind == InitKind /\ [][Next]_vars

\* __init__: `self.precontract = self.parsecontract(self.p.dataname)`
Construct ==
    /\ precontract = NotParsed
    /\ precontract' = ParseContract(p.dataname)
    /\ UNCHANGED <<p, _state, contract, tradecontract, _usertvol, qlive, qhist,
                   lines, notifs, pc, ret, spins, gwLive, gwHist, liveKind,
                   histReqs, histBegin, stopped, supplied, rejects, parts>>

NextParse == Construct

SpecParse == InitParse /\ [][NextParse]_vars

\* ===================================================================
\* Properties
\* ===================================================================

\* the step is an iteration of _load that pulls the head of the historical
\* or of the live channel
PullsHist == pc = "load" /\ _state = ST_HISTORBACK /\ qhist # <<>> /\ LoadHistorback
PullsLive == pc = "load" /\ _state = ST_LIVE /\ qlive # <<>> /\ LoadLive

\* the step is made by _load (its entry or one of its iterations)
LoadStep ==
    \/ LoadEnter \/ LoadLive \/ LoadHistorback \/ LoadStart
    \/ \E more \in BOOLEAN, t \in Ts : LoadFrom(more, t)

\* what a _load call can have an effect on
Effects == <<_state, contract, tradecontract, qlive, qhist, supplied, lines,
             notifs, gwLive, gwHist, liveKind, histReqs, histBegin, precontract>>

\* C1: historical-only feed, resolved contract: the _load iteration that finds
\* the historical channel empty in HISTORBACK puts DISCONNECTED, moves the
\* state to _ST_OVER and returns False (after which _load is a no-op).
C1_ExhaustedGoesOver ==
    [][ (pc = "load" /\ _state = ST_HISTORBACK /\ qhist = <<>> /\ p.historical
         /\ LoadHistorback)
        => /\ notifs' = Append(notifs, DISCONNECTED)
           /\ ret' = "False"
           /\ pc' = "idle"
           /\ _state' = ST_OVER ]_vars

\* C2: _load never blocks: the iteration in LIVE that finds the live channel
\* empty ends the call, returning False without a bar delivered.
C2_LiveEmptyReturns ==
    [][ (pc = "load" /\ _state = ST_LIVE /\ qlive = <<>> /\ LoadLive)
        => (pc' = "idle" /\ ret' = "False" /\ lines' = lines) ]_vars

\* the primary descriptor resolved, the trade descriptor did not
TradeFailed == contract # None /\ tradecontract = None

\* C3: after a start() in which the trade descriptor failed to resolve, start()
\* has put DISCONNECTED and, until the next start(), no _load call issues a
\* historical request, subscribes to a live channel, puts a notification or
\* delivers a bar, and none returns True.
C3_TradeFailureStopsFeed ==
    [](TradeFailed => (Last(notifs) = DISCONNECTED /\ histReqs = 0 /\ ret # "True"))
    /\ [][ (TradeFailed /\ LoadStep)
           => UNCHANGED <<histReqs, liveKind, gwLive, notifs, lines>> ]_vars

\* the primary descriptor did not resolve
PrimaryFailed == _state # ST_NONE /\ contract = None

\* C4: after a start() in which the primary descriptor failed to resolve, the
\* notifications of the session are exactly CONNECTED, DISCONNECTED, no
\* historical request was issued, and until the next start() every _load call
\* returns False and changes nothing (seed, channels, requests, notifications,
\* sink), with or without a seed feed.
C4_PrimaryFailureNoEffect ==
    [](PrimaryFailed => /\ notifs = <<CONNECTED, DISCONNECTED>>
                        /\ histReqs = 0 /\ ~gwHist
                        /\ ret # "True" /\ pc = "idle")
    /\ [][ (PrimaryFailed /\ LoadStep) => (ret' = "False" /\ UNCHANGED Effects) ]_vars

\* a _load call has returned False after a failed start() of a feed whose seed
\* feed has records
C4_Witness ==
    /\ PrimaryFailed /\ ret = "False"
    /\ p.backfill_from /\ _state = ST_FROM /\ supplied < MaxBars

\* C5: after stop(), no _load call delivers a bar to the Bar Sink.
C5_NoBarAfterStop == [][ stopped => lines' = lines ]_vars

\* C6 as stated: with latethrough off, an item pulled from the historical or
\* live channel whose timestamp equals the last timestamp of the sink is
\* rejected, so every bar delivered from a channel is strictly later than the
\* last bar of the sink.
C6_EqualRejected ==
    [][ /\ (~p.latethrough /\ Len(lines) > 0 /\ PullsHist
              /\ Head(qhist) = Last(lines).datetime) => lines' = lines
        /\ (~p.latethrough /\ Len(lines) > 0 /\ PullsLive
              /\ Head(qlive) = Last(lines).datetime) => lines' = lines
        /\ (~p.latethrough /\ Len(lines) > 0 /\ (PullsHist \/ PullsLive)
              /\ lines' # lines)
             => Last(lines').datetime > Last(lines).datetime ]_vars

\* C6 amended: with latethrough off, an item pulled from the historical or live
\* channel is rejected exactly when its timestamp is strictly earlier than the
\* last timestamp of the sink; an item with the same timestamp is delivered
\* (the same raw bar normalised twice is delivered twice).
C6_RejectedIffEarlier ==
    [][ /\ (~p.latethrough /\ PullsHist) =>
             IF Len(lines) > 0 /\ Head(qhist) < Last(lines).datetime
             THEN lines' = lines /\ pc' = "load"
             ELSE lines' = Append(lines, Bar(Head(qhist), "hist")) /\ ret' = "True"
        /\ (~p.latethrough /\ PullsLive) =>
             IF Len(lines) > 0 /\ Head(qlive) < Last(lines).datetime
             THEN lines' = lines /\ pc' = "load"
             ELSE lines' = Append(lines, Bar(Head(qlive), "live")) /\ ret' = "True" ]_vars

\* two bars with the same timestamp were delivered from the channels one after
\* the other
C6_Witness ==
    /\ ~p.latethrough
    /\ \E i \in 1..(Len(lines) - 1) :
         /\ lines[i].cur /\ lines[i + 1].cur
         /\ lines[i].src # "seed" /\ lines[i + 1].src # "seed"
         /\ lines[i].datetime = lines[i + 1].datetime

\* the bars of the current session that come from the sources in S are,
\* source by source, in non-decreasing timestamp order
SourceOrdered(S) ==
    \A i, j \in 1..Len(lines) :
        (i < j /\ lines[i].src \in S /\ lines[i].src = lines[j].src
               /\ lines[i].cur /\ lines[j].cur)
        => lines[i].datetime <= lines[j].datetime

\* C7 as stated: with latethrough off, the bars delivered from each single
\* source (seed, historical, live) are in non-decreasing timestamp order,
\* whatever the order in which the source supplies its records.
C7_EverySourceOrdered == (~p.latethrough) => SourceOrdered({"seed", "hist", "live"})

\* C7 amended: with latethrough off, the bars delivered from the historical
\* channel and those delivered from the live channel are in non-decreasing
\* timestamp order whatever the order of the channel; seed records are
\* delivered in the order the seed feed supplies them.
C7_ChannelsOrdered == (~p.latethrough) => SourceOrdered({"hist", "live"})

\* a channel has delivered an item and now supplies an earlier one, which the
\* running _load call is about to pull
C7_Witness ==
    /\ ~p.latethrough /\ pc = "load" /\ Len(lines) > 0 /\ Last(lines).cur
    /\ \/ /\ _state = ST_HISTORBACK /\ Last(lines).src = "hist"
          /\ qhist # <<>> /\ Head(qhist) < Last(lines).datetime
       \/ /\ _state = ST_LIVE /\ Last(lines).src = "live"
          /\ qlive # <<>> /\ Head(qlive) < Last(lines).datetime

\* C8: with latethrough on, every item pulled from the historical or live
\* channel is delivered to the sink, whatever its timestamp.
C8_LatethroughDeliversAll ==
    [][ /\ (p.latethrough /\ PullsHist) =>
             (lines' = Append(lines, Bar(Head(qhist), "hist")) /\ ret' = "True")
        /\ (p.latethrough /\ PullsLive) =>
             (lines' = Append(lines, Bar(Head(qlive), "live")) /\ ret' = "True") ]_vars

\* a bar earlier than the bar before it was delivered from a channel
C8_Witness ==
    /\ p.latethrough
    /\ \E i \in 1..(Len(lines) - 1) :
         /\ lines[i + 1].src # "seed"
         /\ lines[i + 1].datetime < lines[i].datetime

\* no seed feed, backfill_start off, historical off
LiveNoBackfill == ~p.backfill_from /\ ~p.backfill_start /\ ~p.historical

\* C9: a session with no seed feed, backfill_start off and historical off goes
\* from START to LIVE and to no other state, and never issues a historical
\* request, in start() or in _load.
C9_DirectlyLive ==
    [](LiveNoBackfill => /\ histReqs = 0 /\ ~gwHist
                         /\ _state \in {ST_NONE, ST_START, ST_LIVE}
                         /\ \A i \in 1..Len(notifs) : notifs[i] # DELAYED)
    /\ [][ (LiveNoBackfill /\ _state = ST_START /\ _state' # ST_START)
           => _state' = ST_LIVE ]_vars

\* such a session is in LIVE and has delivered a live bar
C9_Witness ==
    /\ LiveNoBackfill /\ _state = ST_LIVE
    /\ Len(lines) > 0 /\ Last(lines).src = "live" /\ Last(lines).cur

SecondsOf(tfc) == IF tfc[1] = TimeFrameSeconds THEN tfc[2] ELSE 60 * tfc[2]

\* C11: the kind of the live channel is decided by start() and by nothing
\* else, and every subscription issued uses it: ticks whenever the timeframe
\* is finer than 5 seconds (rtbar or not), 5-second bars exactly when rtbar is
\* set and the timeframe is 5 seconds or coarser.
C11_KindFixedAtStart ==
    /\ [](liveKind # None =>
            /\ liveKind = (IF _usertvol THEN "tick" ELSE "rtbar")
            /\ (SecondsOf(p.tfcomp) < 5 => liveKind = "tick")
            /\ (liveKind = "rtbar" <=> (p.rtbar /\ SecondsOf(p.tfcomp) >= 5)))
    /\ [][ (\E m \in 0..2, tm \in 0..2 : Start(m, tm))
           \/ (/\ _usertvol' = _usertvol
               /\ (liveKind # None => liveKind' = liveKind)) ]_vars

\* a feed asked for 5-second bars at a 1-second timeframe has delivered a bar
\* from its tick subscription
C11_Witness ==
    /\ p.rtbar
    /\ p.tfcomp = <<TimeFrameSeconds, 1>>
    /\ liveKind = "tick"
    /\ lines # <<>> /\ Last(lines).src = "live" /\ Last(lines).cur

\* ------------------------------------------------- the session's states
\* the late-arrival policy rejects an item with datetime dt
Late(dt) == ~p.latethrough /\ lines # <<>> /\ dt < Last(lines).datetime

\* C17: when the late-arrival policy rejects a historical bar, a 5-second bar
\* or a tick, nothing is written to the sink and the state is unchanged (no
\* notification either); the item is gone from its channel and the call goes
\* on to its next iteration.
C17_RejectedLeavesNoTrace ==
    [][ /\ (PullsHist /\ Late(Head(qhist))) =>
             /\ lines' = lines /\ _state' = _state /\ notifs' = notifs
             /\ qhist' = Tail(qhist) /\ qlive' = qlive
             /\ pc' = "load" /\ ret' = None
        /\ (PullsLive /\ Late(Head(qlive))) =>
             /\ lines' = lines /\ _state' = _state /\ notifs' = notifs
             /\ qlive' = Tail(qlive) /\ qhist' = qhist
             /\ pc' = "load" /\ ret' = None
             /\ liveKind' \in {"tick", "rtbar"} ]_vars

\* a _load call has rejected an item and is still in its loop
C17_Witness ==
    /\ pc = "load" /\ rejects > 0
    /\ _state \in {ST_HISTORBACK, ST_LIVE}
    /\ ~p.latethrough /\ lines # <<>>

\* a live feed with a seed feed that backfills at start
SeedBackfillFeed == p.backfill_from /\ p.backfill_start /\ ~p.historical

\* C18: live feed with seed feed and backfill_start: the _load iteration that
\* finds the seed feed exhausted delivers nothing and moves _ST_FROM to
\* _ST_START; the same call (it does not return in between) then puts DELAYED
\* and issues the one historical request of the session, which begins at the
\* datetime of the last bar of the sink if the sink has a bar and is open-ended
\* otherwise, and enters _ST_HISTORBACK.
C18_SeedExhaustedBackfills ==
    /\ [][ (SeedBackfillFeed /\ \E t \in Ts : LoadFrom(FALSE, t)) =>
             /\ lines' = lines /\ notifs' = notifs /\ histReqs' = histReqs
             /\ _state' = ST_START /\ pc' = "load" ]_vars
    /\ [][ (SeedBackfillFeed /\ LoadStart) =>
             /\ lines' = lines
             /\ notifs' = Append(notifs, DELAYED)
             /\ histReqs = 0 /\ histReqs' = 1 /\ gwHist'
             /\ histBegin' = (IF lines # <<>> THEN <<Last(lines).datetime>>
                              ELSE <<>>)
             /\ _state' = ST_HISTORBACK /\ pc' = "load" ]_vars
    /\ [](SeedBackfillFeed /\ pc = "idle" => _state # ST_START)

\* the seed feed gave a bar and is exhausted, and the backfill request begins
\* at that bar
C18_Witness ==
    /\ SeedBackfillFeed
    /\ pc = "load" /\ _state = ST_HISTORBACK
    /\ lines # <<>> /\ Last(lines).src = "seed" /\ Last(lines).cur
    /\ histReqs = 1 /\ histBegin = <<Last(lines).datetime>>
    /\ notifs = <<CONNECTED, DELAYED>>

\* the moves of _state that _load and start() make inside a session
Forward == {<<ST_FROM, ST_START>>, <<ST_START, ST_HISTORBACK>>,
            <<ST_START, ST_LIVE>>, <<ST_HISTORBACK, ST_LIVE>>}

\* C19: apart from start() beginning a session, _state only moves along
\* _ST_FROM -> _ST_START -> _ST_HISTORBACK -> _ST_LIVE, or from _ST_START to
\* _ST_LIVE; nothing leaves _ST_LIVE; a session issues at most one historical
\* request.
C19_ForwardOnly ==
    /\ [][ \/ \E m \in 0..2, tm \in 0..2 : Start(m, tm)
           \/ _state' = _state
           \/ <<_state, _state'>> \in Forward ]_vars
    /\ [](histReqs <= 1)

\* a session went from the seed feed through the backfill to a live bar
C19_Witness ==
    /\ p.backfill_from /\ _state = ST_LIVE /\ histReqs = 1
    /\ lines # <<>> /\ Last(lines).src = "live" /\ Last(lines).cur

\* how many times x is in the sequence s
Count(s, x) == Cardinality({i \in 1..Len(s) : s[i] = x})

\* C20: LIVE is put only by the step from _ST_HISTORBACK to _ST_LIVE and at
\* most once in a session; a session that goes from _ST_START to _ST_LIVE (no
\* historical request) delivers live bars with no LIVE ever put.
C20_LiveNotifiedOnce ==
    /\ [][ Count(notifs', LIVE) > Count(notifs, LIVE)
           => (_state = ST_HISTORBACK /\ _state' = ST_LIVE) ]_vars
    /\ [](Count(notifs, LIVE) <= 1)
    /\ []((_state = ST_LIVE /\ histReqs = 0) => Count(notifs, LIVE) = 0)

\* after its seed feed a session went to LIVE without backfill and delivered
\* a live bar; no LIVE was put
C20_Witness ==
    /\ p.backfill_from /\ ~p.backfill_start
    /\ _state = ST_LIVE /\ histReqs = 0
    /\ lines # <<>> /\ Last(lines).src = "live" /\ Last(lines).cur
    /\ Count(notifs, LIVE) = 0

\* C21: live feed: once _load has found qhist empty and gone to _ST_LIVE, no
\* step of the session reads qhist again: a historical bar the gateway puts
\* there afterwards stays there and no historical bar reaches the sink.
C21_HistNotReadInLive ==
    [][ (_state = ST_LIVE /\ ~(\E m \in 0..2, tm \in 0..2 : Start(m, tm))) =>
          /\ Len(qhist') >= Len(qhist)
          /\ SubSeq(qhist', 1, Len(qhist)) = qhist
          /\ (lines' # lines => Last(lines').src # "hist")
          /\ _state' = ST_LIVE ]_vars

\* the gateway answered the backfill request after _load had gone LIVE: the
\* bar is in qhist while the session has already delivered a live bar
C21_Witness ==
    /\ ~p.historical /\ _state = ST_LIVE /\ histReqs = 1
    /\ qhist # <<>>
    /\ pc = "idle" /\ ret = "True"
    /\ lines # <<>> /\ Last(lines).src = "live" /\ Last(lines).cur

\* C22: with latethrough off, a bar delivered from the historical or live
\* channel is never earlier than the bar before it in the sink, whether that
\* bar came from the seed feed, the historical channel or the live channel.
C22_NotBeforePrevious ==
    (~p.latethrough) =>
        \A i \in 2..Len(lines) :
            lines[i].src \in {"hist", "live"}
            => lines[i].datetime >= lines[i - 1].datetime

\* a historical bar older than the last seed bar has been dropped
C22_Witness ==
    /\ ~p.latethrough
    /\ pc = "load" /\ _state = ST_HISTORBACK /\ rejects > 0
    /\ lines # <<>> /\ Last(lines).src = "seed" /\ Last(lines).cur

\* ------------------------------------------------------ parsecontract()
\* __init__ has run parsecontract on the identifier written from parts
Parsed == precontract # NotParsed

\* parsecontract returned a descriptor (it did not raise)
Returned == Parsed /\ precontract.raised = ""

\* the type the identifier names: its second token, or the default
NamedType == IF Len(parts) >= 2 THEN parts[2] ELSE p.sectype

\* the identifier takes the FUT branch of the optional tokens
FutPath ==
    /\ Len(parts) >= 4
    /\ parts[2] = FUT \/ (IsDigit(parts[2]) /\ Len(parts[2]) = 6)

\* in the FUT branch, the position of the token first read as multiplier
FutMultAt == IF parts[2] = FUT THEN 6 ELSE 5

\* in the FUT branch a token follows the one first read as multiplier, and
\* that one is a number
FutProbe ==
    /\ FutPath
    /\ Len(parts) >= FutMultAt + 1
    /\ FloatOk(parts[FutMultAt])

\* C12 as stated: in the FUT branch, when a token follows the one first read
\* as multiplier, the type becomes FOP, the token first read as multiplier
\* becomes the strike and the probe token becomes the multiplier
\* ("FGBL-200609-DTB-EUR-100-C": FOP, strike 100.0, multiplier "C").
C12_ProbeIsMultiplier ==
    (Parsed /\ FutProbe) =>
        /\ precontract.raised = ""
        /\ precontract.sectype = FOP
        /\ precontract.strike = DecimalValue(parts[FutMultAt])
        /\ precontract.mult = parts[FutMultAt + 1]

\* C12 amended: ... the type becomes FOP, the token first read as multiplier
\* becomes the strike, the probe token becomes the right, and the multiplier
\* is the token after the probe token if there is one and empty otherwise
\* ("FGBL-200609-DTB-EUR-100-C": FOP, strike 100.0, right "C", multiplier "").
C12_ProbeIsRight ==
    (Parsed /\ FutProbe) =>
        /\ precontract.raised = ""
        /\ precontract.sectype = FOP
        /\ precontract.strike = DecimalValue(parts[FutMultAt])
        /\ precontract.right = parts[FutMultAt + 1]
        /\ precontract.mult = (IF Len(parts) >= FutMultAt + 2
                               THEN parts[FutMultAt + 2] ELSE <<>>)

\* "FGBL-200609-DTB-EUR-100-C" has been parsed
C12_Witness ==
    /\ parts = <<FGBL, YYYYMM, DTB, EUR, N100, RightC>>
    /\ Returned
    /\ precontract.sectype = FOP
    /\ precontract.strike = 100

\* the descriptor parsecontract makes of the identifier written from ts
DescriptorOf(ts) == ParseContract(Join(ts, "-"))

\* C13: TICKER-FOP-EXCHANGE-CURRENCY-YYYYMM-STRIKE-RIGHT[-MULT] gives a FOP
\* descriptor with expiry, strike, right (and multiplier) set, the same
\* descriptor as TICKER-YYYYMM-EXCHANGE-CURRENCY-STRIKE-RIGHT[-MULT].
C13_ExplicitFopForm ==
    (/\ Parsed
     /\ Len(parts) \in {7, 8}
     /\ parts[2] = FOP
     /\ IsDigit(parts[5]) /\ Len(parts[5]) = 6
     /\ FloatOk(parts[6]))
    => /\ precontract.raised = ""
       /\ precontract.sectype = FOP
       /\ precontract.expiry = parts[5]
       /\ precontract.strike = DecimalValue(parts[6])
       /\ precontract.right = parts[7]
       /\ precontract.mult = (IF Len(parts) = 8 THEN parts[8] ELSE <<>>)
       /\ precontract = DescriptorOf(<<parts[1], parts[5], parts[3], parts[4]>>
                                     \o SubSeq(parts, 6, Len(parts)))

\* C14: a descriptor of type CASH has the part of the first token before the
\* "." as symbol and the part after it as currency, however many tokens
\* follow the type.
C14_CashCurrencyFromSymbol ==
    (Returned /\ precontract.sectype = CASH) =>
        \E i \in 1..Len(parts[1]) :
            /\ parts[1][i] = "."
            /\ precontract.symbol = SubSeq(parts[1], 1, i - 1)
            /\ precontract.curr = SubSeq(parts[1], i + 1, Len(parts[1]))

\* C15: an identifier with an empty symbol token, and a CASH identifier whose
\* symbol has no ".", make parsecontract fail: no descriptor is returned.
C15_MalformedIsFatal ==
    (/\ Parsed
     /\ \/ parts[1] = <<>>
        \/ (NamedType = CASH /\ \A i \in 1..Len(parts[1]) : parts[1][i] # "."))
    => precontract.raised # ""

\* C16: a second token of 6 or of 8 digits is the expiry; 6 digits select the
\* FUT continuation and 8 digits the OPT continuation, and neither reads an
\* expiry again: the tokens after the currency are the multiplier (FUT; the
\* strike when a further token promotes the descriptor to FOP) or the strike,
\* right and multiplier (OPT).
C16_DigitTypeToken ==
    (Parsed /\ Len(parts) >= 2 /\ IsDigit(parts[2]) /\ Len(parts[2]) \in {6, 8})
    => LET n    == Len(parts)
           six  == Len(parts[2]) = 6
           tok(i) == IF n >= i THEN parts[i] ELSE <<>>
           bad  == n >= 5 /\ ~FloatOk(parts[5]) /\ (~six \/ n >= 6)
       IN
       /\ precontract.raised # "" <=> bad
       /\ ~bad =>
            /\ precontract.symbol = parts[1]
            /\ precontract.expiry = parts[2]
            /\ (six /\ n <= 5) =>
                  /\ precontract.sectype = FUT
                  /\ precontract.mult = tok(5)
                  /\ precontract.strike = 0 /\ precontract.right = <<>>
            /\ (six /\ n >= 6) =>
                  /\ precontract.sectype = FOP
                  /\ precontract.strike = DecimalValue(parts[5])
            /\ ~six =>
                  /\ precontract.sectype = OPT
                  /\ precontract.strike = (IF n >= 5 THEN DecimalValue(parts[5]) ELSE 0)
                  /\ precontract.right = tok(6)
                  /\ precontract.mult = tok(7)

\* "FGBL-200609-DTB-EUR-100" has been parsed: a future with multiplier "100"
C16_Witness ==
    /\ parts = <<FGBL, YYYYMM, DTB, EUR, N100>>
    /\ precontract = MakeContract(FGBL, FUT, DTB, EUR, YYYYMM, 0, <<>>, N100)

TypeOK ==
    /\ \E c \in Params : p = IBDataParams(c, p.dataname, p.sectype)
    /\ p.dataname = Join(parts, "-")
    /\ rejects \in 0..MaxBars
    /\ _state \in {ST_NONE, ST_FROM, ST_START, ST_LIVE, ST_HISTORBACK, ST_OVER}
    /\ pc \in {"idle", "load"}
    /\ ret \in {None, "True", "False"}
    /\ spins \in 0..MaxSpin
    /\ histReqs \in 0..1
    /\ Len(notifs) <= MaxNotifs
====
